---------------------------- MODULE Spec2Model ----------------------------
(***************************************************************************)
(* sym-data: extraction of weapon statistics from a saved HTML page.       *)
(*                                                                         *)
(* The module models the program of src/unnamed/part_000 (the entry        *)
(* point) together with the helpers of src/utils.js it imports.            *)
(*                                                                         *)
(* Text is modelled as a sequence of one-character strings, so that        *)
(* split, replaceAll, includes, substring and Number work on characters    *)
(* as the JavaScript originals do.  A JavaScript value is a tagged record: *)
(* a number, NaN, undefined or a string.  Numbers are integers: the        *)
(* alphabet of the modelled documents has no decimal point, exponent or    *)
(* sign other than "-".                                                    *)
(***************************************************************************)
EXTENDS Integers, Sequences, FiniteSets, TLC

VARIABLES
    pc,          \* position of the program: see Init
    doc,         \* the parsed document: a sequence of weapon classes
    classIndex,  \* part_000:21
    weaponIndex, \* part_000:24
    ruleIndex,   \* index of the forEach iteration of part_000:200
    weaponName,  \* part_000:83
    weaponData,  \* part_000:82
    symData,     \* part_000:7
    col,         \* the `col` binding of each rule's getSpread closure
    writes,      \* state of the two fs.writeFile calls
    log,         \* console output
    pruneArgs,   \* arguments of a call of prune (SpecPrune)
    pruneRet     \* its return value (SpecPrune)

vars == <<pc, doc, classIndex, weaponIndex, ruleIndex, weaponName, weaponData,
          symData, col, writes, log, pruneArgs, pruneRet>>

-----------------------------------------------------------------------------
(* JavaScript values *)

Undefined == [t |-> "undefined"]

NaN == [t |-> "NaN"]

Num(n) == [t |-> "number", n |-> n]

Str(s) == [t |-> "string", s |-> s]

IsNum(v) == v.t = "number"

Digits == <<"0", "1", "2", "3", "4", "5", "6", "7", "8", "9">>

IsDigit(c) == \E i \in 1..10 : Digits[i] = c

DigitVal(c) == (CHOOSE i \in 1..10 : Digits[i] = c) - 1

DEGREE == "°"

SPACE == " "

-----------------------------------------------------------------------------
(* String primitives *)

\* String.prototype.split with a one-character separator: the pieces
\* between the separators, empty pieces included.
RECURSIVE Split(_, _)
Split(s, sep) ==
    IF \A i \in 1..Len(s) : s[i] # sep
    THEN <<s>>
    ELSE LET k == CHOOSE i \in 1..Len(s) :
                     s[i] = sep /\ \A j \in 1..(i - 1) : s[j] # sep
         IN  <<SubSeq(s, 1, k - 1)>> \o Split(SubSeq(s, k + 1, Len(s)), sep)

\* String.prototype.replaceAll(badCharacter, ""), one character at a time.
RECURSIVE ReplaceAll(_, _)
ReplaceAll(s, bad) ==
    IF s = <<>> THEN <<>>
    ELSE IF Head(s) = bad THEN ReplaceAll(Tail(s), bad)
    ELSE <<Head(s)>> \o ReplaceAll(Tail(s), bad)

\* String.prototype.includes
Includes(s, sub) ==
    \E i \in 0..(Len(s) - Len(sub)) : SubSeq(s, i + 1, i + Len(sub)) = sub

\* StringToNumber trims white space first.
RECURSIVE TrimLeft(_)
TrimLeft(s) ==
    IF s # <<>> /\ Head(s) = SPACE THEN TrimLeft(Tail(s)) ELSE s

RECURSIVE TrimRight(_)
TrimRight(s) ==
    IF s # <<>> /\ s[Len(s)] = SPACE THEN TrimRight(SubSeq(s, 1, Len(s) - 1))
    ELSE s

RECURSIVE DecimalValue(_)
DecimalValue(s) ==
    IF s = <<>> THEN 0
    ELSE 10 * DecimalValue(SubSeq(s, 1, Len(s) - 1)) + DigitVal(s[Len(s)])

AllDigits(s) == s # <<>> /\ \A i \in 1..Len(s) : IsDigit(s[i])

\* Number(string): the empty or all-blank string is 0, a decimal literal is
\* its value, anything else is NaN.
StringToNumber(s) ==
    LET t == TrimRight(TrimLeft(s))
    IN  IF t = <<>> THEN Num(0)
        ELSE IF AllDigits(t) THEN Num(DecimalValue(t))
        ELSE IF Head(t) = "-" /\ AllDigits(Tail(t))
             THEN Num(0 - DecimalValue(Tail(t)))
        ELSE NaN

\* Number(value)
ToNumber(v) ==
    CASE v.t = "number" -> v
      [] v.t = "NaN" -> NaN
      [] v.t = "undefined" -> NaN
      [] v.t = "string" -> StringToNumber(v.s)

\* Math.abs(value)
MathAbs(v) ==
    LET x == ToNumber(v)
    IN  IF IsNum(x) THEN Num(IF x.n < 0 THEN 0 - x.n ELSE x.n) ELSE NaN

-----------------------------------------------------------------------------
(* utils.js: prune *)

\* The options object of prune.  An absent keepSpaces is falsy and an
\* absent asNumber is not `=== false`.
DefaultOpts == [keepSpaces |-> FALSE, asNumber |-> TRUE]

\* FirstCandidate without the test of the length: return strings[0].
FirstPiece(strings, string) == strings[1]

\* FirstCandidate with the empty string as the fallback: return "".
FirstCandidateOrEmpty(strings, string) ==
    IF \E i \in 1..Len(strings) : Len(strings[i]) # 0
    THEN strings[CHOOSE i \in 1..Len(strings) :
                     /\ Len(strings[i]) # 0
                     /\ \A j \in 1..(i - 1) : Len(strings[j]) = 0]
    ELSE <<>>

\* utils.js:19-23: the first candidate of nonzero length, else the string.
FirstCandidate(strings, string) ==
    IF \E i \in 1..Len(strings) : Len(strings[i]) # 0
    THEN strings[CHOOSE i \in 1..Len(strings) :
                     /\ Len(strings[i]) # 0
                     /\ \A j \in 1..(i - 1) : Len(strings[j]) = 0]
    ELSE string

\* String.prototype.replace(badCharacter, ""): the first occurrence only.
RECURSIVE ReplaceFirst(_, _)
ReplaceFirst(s, bad) ==
    IF s = <<>> THEN <<>>
    ELSE IF Head(s) = bad THEN Tail(s)
    ELSE <<Head(s)>> \o ReplaceFirst(Tail(s), bad)

\* StripBadCharacters with replace in place of replaceAll.
StripFirstBadCharacter(s) == ReplaceFirst(s, DEGREE)

\* utils.js:27-29
StripBadCharacters(s) == ReplaceAll(s, DEGREE)

prune(string, opts) ==
    IF string.t # "string" THEN Undefined
    ELSE LET plucked == IF ~opts.keepSpaces
                        THEN FirstCandidate(Split(string.s, SPACE), string.s)
                        ELSE string.s
             cleaned == StripBadCharacters(plucked)
         IN  IF opts.asNumber = FALSE THEN Str(cleaned)
             ELSE ToNumber(Str(cleaned))

-----------------------------------------------------------------------------
(* JavaScript objects: property maps that keep insertion order *)

\* An object is a sequence of [k, v] entries with distinct keys.
Keys(o) == [i \in 1..Len(o) |-> o[i].k]

Has(o, key) == \E i \in 1..Len(o) : o[i].k = key

\* o[key]: undefined when the property is absent.
Get(o, key) ==
    IF Has(o, key) THEN o[CHOOSE i \in 1..Len(o) : o[i].k = key].v
    ELSE Undefined

\* o[key] = value: an existing property keeps its position.
Put(o, key, value) ==
    IF Has(o, key)
    THEN [i \in 1..Len(o) |-> IF o[i].k = key THEN [k |-> key, v |-> value]
                              ELSE o[i]]
    ELSE Append(o, [k |-> key, v |-> value])

\* A property key made of a value: undefined becomes "undefined".
UndefinedChars == <<"u", "n", "d", "e", "f", "i", "n", "e", "d">>

ToPropertyKey(v) == IF v.t = "string" THEN v.s ELSE UndefinedChars

-----------------------------------------------------------------------------
(* The parsed document *)

\* The class names the rules and the weapon name look up.
ClassNames ==
    {"lblWeaponNameValue", "lblMag", "lblRPMValue", "chartMinMaxLabel",
     "lblSpeedValue", "lblDragCoe", "lblReloadLeft", "lblReloadEmpty",
     "lblDeployTime", "recoilInitUpValue", "recoilHorValue",
     "recoilFirstShot", "recoilDec", "hipSpreadValue", "spreadTable",
     "spreadIncDecTable"}

\* An element: its text, the text of its next sibling (undefined when it
\* has none), the texts of its children and, for a table, the children of
\* each of its tr descendants.  A weapon block maps each class name to the
\* elements of that class in document order.
Element(text, sibling, children, tr) ==
    [textContent |-> text, nextSibling |-> sibling, children |-> children,
     tr |-> tr]

Leaf(text) == Element(text, Undefined, <<>>, <<>>)

\* list[index] of a NodeList or HTMLCollection, 0-indexed.
Item(list, index) ==
    IF index >= 0 /\ index < Len(list) THEN Str(list[index + 1]) ELSE Undefined

\* part_000:67-69
getAll(weapon, className) == weapon[className]

\* part_000:76-78; querySelector finds the same element or null.
getFirst(weapon, className) ==
    IF Len(getAll(weapon, className)) > 0
    THEN getAll(weapon, className)[1]
    ELSE Undefined

IsElement(e) == "textContent" \in DOMAIN e

\* element?.textContent
TextContent(e) == IF IsElement(e) THEN Str(e.textContent) ELSE Undefined

\* part_000:34-41
getValue(weapon, className, opts) ==
    prune(TextContent(getFirst(weapon, className)), opts)

\* part_000:52-60: ?.nextSibling?.textContent
getValueOfSibling(weapon, className, opts) ==
    LET e == getFirst(weapon, className)
    IN  prune(IF IsElement(e) THEN e.nextSibling ELSE Undefined, opts)

\* part_000:107-110: ?.querySelectorAll("tr")[row]?.children[col]?.textContent
CellText(e, row, column) ==
    IF ~IsElement(e) THEN Undefined
    ELSE IF row < 0 \/ row >= Len(e.tr) THEN Undefined
    ELSE Item(e.tr[row + 1], column)

-----------------------------------------------------------------------------
(* The rule list, part_000:140-199 *)

Simple(property, className) ==
    [property |-> property, className |-> className, kind |-> "simple"]

Custom(property, className, kind) ==
    [property |-> property, className |-> className, kind |-> kind]

\* A rule whose custom behaviour is getSpread(row, col, dynamicCol).
Spread(property, className, row, column, dynamicCol) ==
    [property |-> property, className |-> className, kind |-> "getSpread",
     row |-> row, col |-> column, dynamicCol |-> dynamicCol]

\* A rule whose custom behaviour is getFssm(row, col).
Fssm(property, className, row, column) ==
    [property |-> property, className |-> className, kind |-> "getFssm",
     row |-> row, col |-> column, dynamicCol |-> TRUE]

Rules ==
    << Simple("ammoCapacity", "lblMag"),
       Simple("rateOfFire", "lblRPMValue"),
       Custom("pellets", "chartMinMaxLabel", "pellets"),
       Simple("initialVelocity", "lblSpeedValue"),
       Simple("dragCoefficient", "lblDragCoe"),
       Simple("reloadTime", "lblReloadLeft"),
       Simple("reloadTimeEmpty", "lblReloadEmpty"),
       Simple("deployTime", "lblDeployTime"),
       Simple("verticalRecoil", "recoilInitUpValue"),
       Custom("recoilLeft", "recoilHorValue", "recoilLeft"),
       Custom("recoilRight", "recoilHorValue", "recoilRight"),
       Custom("recoilFirstShotMultiplier", "recoilFirstShot",
              "recoilFirstShot"),
       Simple("recoilDecrease", "recoilDec"),
       Simple("dispersion", "hipSpreadValue"),
       Spread("adsStandBaseMin", "spreadTable", 1, 1, TRUE),
       Spread("adsStandBaseMax", "spreadTable", 1, 2, TRUE),
       Spread("adsCrouchBaseMin", "spreadTable", 2, 1, TRUE),
       Spread("adsCrouchBaseMax", "spreadTable", 2, 2, TRUE),
       Spread("adsProneBaseMin", "spreadTable", 3, 1, TRUE),
       Spread("adsProneBaseMax", "spreadTable", 3, 2, TRUE),
       Spread("hipStandBaseMin", "spreadTable", 4, 1, TRUE),
       Spread("hipStandBaseMax", "spreadTable", 4, 2, TRUE),
       Spread("hipCrouchBaseMin", "spreadTable", 5, 1, TRUE),
       Spread("hipCrouchBaseMax", "spreadTable", 5, 2, TRUE),
       Spread("hipProneBaseMin", "spreadTable", 6, 1, TRUE),
       Spread("hipProneBaseMax", "spreadTable", 6, 2, TRUE),
       Spread("adsStandSpreadInc", "spreadIncDecTable", 2, 1, FALSE),
       Spread("hipStandSpreadInc", "spreadIncDecTable", 2, 2, FALSE),
       Fssm("adsStandFirstSpreadMul", "spreadIncDecTable", 1, 1),
       Fssm("hipStandFirstSpreadMul", "spreadIncDecTable", 1, 2),
       Spread("adsStandSpreadDec", "spreadIncDecTable", 3, 1, FALSE),
       Spread("hipStandSpreadDec", "spreadIncDecTable", 3, 2, FALSE) >>

NumRules == Len(Rules)

IsTableRule(rule) == rule.kind \in {"getSpread", "getFssm"}

\* The `col` bindings made when the array literal of part_000:140-199 is
\* evaluated for a weapon: each getSpread(row, col, ...) and getFssm(row,
\* col) call binds its own col.  0 stands for a rule that binds none.
NewClosures ==
    [i \in 1..NumRules |-> IF IsTableRule(Rules[i]) THEN Rules[i].col ELSE 0]

-----------------------------------------------------------------------------
(* The custom behaviours and the rule interpreter.  Each takes the record  *)
(* in progress and yields the record after the rule has run.               *)

\* DynamicCol with the test of the row left out: every flagged rule
\* decrements.
DynamicColEveryRow(row, column, dynamicCol) ==
    IF dynamicCol THEN column - 1 ELSE column

\* part_000:104: the column the closure indexes with, from its col binding.
DynamicCol(row, column, dynamicCol) ==
    IF dynamicCol /\ row % 3 # 1 THEN column - 1 ELSE column

\* part_000:103-112: the closure made by getSpread(row, col, dynamicCol),
\* called with (property, className); `column` is its col binding.  Yields
\* the record and the binding after the call.
getSpread(data, weapon, property, className, row, column, dynamicCol) ==
    LET c == DynamicCol(row, column, dynamicCol)
    IN  [data |-> Put(data, property,
                      prune(CellText(getFirst(weapon, className), row, c),
                            DefaultOpts)),
         col |-> c]

\* (x / y).toFixed(0) read back by Number, for numbers x and y # 0: the
\* nearest integer, a tie going away from zero.
ToFixed0(x, y) ==
    LET ax == IF x < 0 THEN 0 - x ELSE x
        ay == IF y < 0 THEN 0 - y ELSE y
        q  == (2 * ax + ay) \div (2 * ay)
    IN  IF (x < 0) # (y < 0) THEN 0 - q ELSE q

\* Multiplier with the wrong operand in the zero branch:
\* sips === 0 ? firstSips : ...
MultiplierFirstSips(firstSips, sips) ==
    IF IsNum(sips) /\ sips.n = 0 THEN firstSips
    ELSE IF IsNum(sips) /\ IsNum(firstSips)
         THEN Num(ToFixed0(firstSips.n, sips.n))
    ELSE NaN

\* part_000:128-130
Multiplier(firstSips, sips) ==
    IF IsNum(sips) /\ sips.n = 0 THEN sips
    ELSE IF IsNum(sips) /\ IsNum(firstSips)
         THEN Num(ToFixed0(firstSips.n, sips.n))
    ELSE NaN

\* part_000:123-131: the closure made by getFssm(row, col).  The inner
\* getSpread(row, col) binds a col of its own, with dynamicCol defaulted.
getFssm(data, weapon, property, className, row, column) ==
    LET spread    == getSpread(data, weapon, property, className, row, column,
                               TRUE)
        firstSips == ToNumber(Get(spread.data, property))
        sips      == ToNumber(Get(spread.data, "adsStandSpreadInc"))
    IN  [data |-> Put(spread.data, property, Multiplier(firstSips, sips)),
         col |-> spread.col]

PELLETS == <<"p", "e", "l", "l", "e", "t", "s">>

\* part_000:143-154
pellets(data, weapon, property, className) ==
    LET labels == getAll(weapon, className)
        hits   == {i \in 1..Len(labels) :
                      Includes(labels[i].textContent, PELLETS)}
    IN  IF hits = {} THEN data
        ELSE LET first == CHOOSE i \in hits : \A j \in hits : i <= j
             IN  Put(data, property,
                     prune(Str(labels[first].textContent), DefaultOpts))

\* part_000:161-164
recoilLeft(data, weapon, property, className) ==
    Put(data, property, MathAbs(getValue(weapon, className, DefaultOpts)))

\* part_000:165-168
recoilRight(data, weapon, property, className) ==
    Put(data, property,
        MathAbs(getValueOfSibling(weapon, className, DefaultOpts)))

\* part_000:172-178: getFirst(className)?.children[1]?.textContent
recoilFirstShot(data, weapon, property, className) ==
    LET e == getFirst(weapon, className)
    IN  Put(data, property,
            prune(IF IsElement(e) THEN Item(e.children, 1) ELSE Undefined,
                  DefaultOpts))

\* part_000:207-212: a rule without a custom behaviour
simple(data, weapon, property, className) ==
    LET value == getValue(weapon, className, DefaultOpts)
    IN  IF value = Undefined THEN data ELSE Put(data, property, value)

\* part_000:200-213: one iteration of the forEach.  `column` is the col
\* binding of the rule's closure.
ApplyRuleTo(data, weapon, rule, column) ==
    CASE rule.kind = "simple" ->
           [data |-> simple(data, weapon, rule.property, rule.className),
            col |-> column]
      [] rule.kind = "pellets" ->
           [data |-> pellets(data, weapon, rule.property, rule.className),
            col |-> column]
      [] rule.kind = "recoilLeft" ->
           [data |-> recoilLeft(data, weapon, rule.property, rule.className),
            col |-> column]
      [] rule.kind = "recoilRight" ->
           [data |-> recoilRight(data, weapon, rule.property, rule.className),
            col |-> column]
      [] rule.kind = "recoilFirstShot" ->
           [data |-> recoilFirstShot(data, weapon, rule.property,
                                     rule.className),
            col |-> column]
      [] rule.kind = "getSpread" ->
           getSpread(data, weapon, rule.property, rule.className, rule.row,
                     column, rule.dynamicCol)
      [] rule.kind = "getFssm" ->
           getFssm(data, weapon, rule.property, rule.className, rule.row,
                   column)

-----------------------------------------------------------------------------
(* Serialisation *)

\* String(n) of an integer
RECURSIVE NatChars(_)
NatChars(n) ==
    IF n < 10 THEN <<Digits[n + 1]>>
    ELSE NatChars(n \div 10) \o <<Digits[(n % 10) + 1]>>

\* String(value), as a template literal renders it
ValueChars(v) ==
    CASE v.t = "number" ->
           IF v.n < 0 THEN <<"-">> \o NatChars(0 - v.n) ELSE NatChars(v.n)
      [] v.t = "NaN" -> <<"N", "a", "N">>
      [] v.t = "undefined" -> UndefinedChars
      [] v.t = "string" -> v.s

INDENT == <<" ", " ">>

DOUBLE_INDENT == INDENT \o INDENT

\* utils.js:51-55: the lines of the attributes from the j-th on.  A property
\* name of the rule list is one element of the text.
RECURSIVE PrettyStats(_, _)
PrettyStats(stats, j) ==
    IF j > Len(stats) THEN <<>>
    ELSE LET comma == IF j < Len(stats) THEN <<",">> ELSE <<>>
         IN  DOUBLE_INDENT \o <<"\"", stats[j].k, "\"", ":", " ">>
               \o ValueChars(stats[j].v) \o comma \o <<"\n">>
               \o PrettyStats(stats, j + 1)

\* utils.js:45-57: the text of the weapons from the i-th on
RECURSIVE PrettyWeapons(_, _)
PrettyWeapons(data, i) ==
    IF i > Len(data) THEN <<>>
    ELSE INDENT \o <<"\"">> \o data[i].k \o <<"\"", ":", " ", "{", "\n">>
           \o PrettyStats(data[i].v, 1)
           \o INDENT \o <<"}", ",", "\n">>
           \o PrettyWeapons(data, i + 1)

\* DropLastTwo off by one: result.substring(0, result.length - 1)
DropLastOne(result) == SubSeq(result, 1, Len(result) - 1)

\* utils.js:58: result.substring(0, result.length - 2)
DropLastTwo(result) == SubSeq(result, 1, Len(result) - 2)

\* utils.js:39-59
prettifySymData(data) ==
    LET result == <<"{", "\n">> \o PrettyWeapons(data, 1)
    IN  DropLastTwo(result) \o <<"\n", "}">>

\* JSON.stringify of a record: a property whose value is undefined is left
\* out, NaN is written null.
RECURSIVE JsonStats(_, _, _)
JsonStats(stats, j, first) ==
    IF j > Len(stats) THEN <<>>
    ELSE IF stats[j].v = Undefined THEN JsonStats(stats, j + 1, first)
    ELSE (IF first THEN <<>> ELSE <<",">>)
           \o <<"\"", stats[j].k, "\"", ":">>
           \o (IF stats[j].v = NaN THEN <<"n", "u", "l", "l">>
               ELSE ValueChars(stats[j].v))
           \o JsonStats(stats, j + 1, FALSE)

RECURSIVE JsonWeapons(_, _)
JsonWeapons(data, i) ==
    IF i > Len(data) THEN <<>>
    ELSE (IF i = 1 THEN <<>> ELSE <<",">>)
           \o <<"\"">> \o data[i].k \o <<"\"", ":", "{">>
           \o JsonStats(data[i].v, 1, TRUE) \o <<"}">>
           \o JsonWeapons(data, i + 1)

\* part_000:217: JSON.stringify(symData)
JsonStringify(data) == <<"{">> \o JsonWeapons(data, 1) \o <<"}">>

-----------------------------------------------------------------------------
(* The documents the program is run on *)

\* The most weapon blocks a document of several weapons has.
MaxWeapons == 2

\* The text of the cell at child index j of row r of a table: the digits r
\* and j and a degree sign.
Cell(r, j) == <<Digits[r + 1], Digits[j + 1], DEGREE>>

Table(rows) == Element(<<>>, Undefined, <<>>, rows)

\* A spread table: a header row, then rows 1 to 6.  Rows 1 and 4 have one
\* more leading cell than the others.
SpreadRows ==
    [r \in 1..7 |->
        IF r = 1 THEN <<<<"h">>>>
        ELSE IF (r - 1) % 3 = 1
             THEN <<<<"s">>, Cell(r - 1, 1), Cell(r - 1, 2)>>
        ELSE <<Cell(r - 1, 0), Cell(r - 1, 1)>>]

\* A spread increase/decrease table: a header row, the row of the first
\* shots, the row of the increases and the row of the decreases.
IncDecRows(first, inc) ==
    <<<<<<"h">>>>, first, inc, <<<<"d">>, <<"1">>, <<"1", "°">>>>>>

\* A weapon block with every element the rules look up.
FullBlock(name, first, inc) ==
    [c \in ClassNames |->
        CASE c = "lblWeaponNameValue" -> <<Leaf(name)>>
          [] c = "lblMag" -> <<Leaf(<<"3", "0", " ", "x">>)>>
          [] c = "lblRPMValue" -> <<Leaf(<<"6", "0", "0">>)>>
          [] c = "chartMinMaxLabel" ->
               <<Leaf(<<"m", "i", "n">>),
                 Leaf(<<"1", "2", " ">> \o PELLETS),
                 Leaf(<<"9", " ">> \o PELLETS)>>
          [] c = "lblSpeedValue" -> <<Leaf(<<" ", "8", "2", "0">>)>>
          [] c = "lblDragCoe" -> <<Leaf(<<"2">>)>>
          [] c = "lblReloadLeft" -> <<Leaf(<<"3">>)>>
          [] c = "lblReloadEmpty" -> <<Leaf(<<"4">>)>>
          [] c = "lblDeployTime" -> <<Leaf(<<"1">>)>>
          [] c = "recoilInitUpValue" -> <<Leaf(<<"5", "°">>)>>
          [] c = "recoilHorValue" ->
               <<Element(<<"-", "3", "°">>, Str(<<"4", "°">>), <<>>, <<>>)>>
          [] c = "recoilFirstShot" ->
               <<Element(<<"x", "2">>, Undefined, <<<<"x">>, <<"2">>>>, <<>>)>>
          [] c = "recoilDec" -> <<Leaf(<<"7">>)>>
          [] c = "hipSpreadValue" -> <<Leaf(<<"8">>)>>
          [] c = "spreadTable" -> <<Table(SpreadRows)>>
          [] c = "spreadIncDecTable" -> <<Table(IncDecRows(first, inc))>>]

\* The block without any element of a class.
Without(block, className) == [block EXCEPT ![className] = <<>>]

\* The block with the elements of a class replaced.
With(block, className, elements) == [block EXCEPT ![className] = elements]

EmptyBlock == [c \in ClassNames |-> <<>>]

NameA == <<"A", " ", "1">>

NameB == <<"B", "°">>

\* Rows of first shots and of increases: short rows, zero, non-numeric
\* text, quotients with and without a tie.
FirstRows ==
    {<<<<"f">>>>, <<<<"f">>, <<"4">>>>, <<<<"f">>, <<"4">>, <<"6">>>>,
     <<<<"f">>, <<"x">>, <<"6">>>>, <<<<"f">>, <<"5">>, <<"x">>>>,
     <<<<"f">>, <<"0">>, <<"0">>>>}

IncTexts == {<<"0">>, <<"2">>, <<"4">>, <<"x">>}

IncRows ==
    {<<<<"i">>>>} \cup {<<<<"i">>, a, b>> : a \in IncTexts, b \in IncTexts}

Standard == FullBlock(NameA, <<<<"f">>, <<"4">>, <<"6">>>>,
                      <<<<"i">>, <<"2">>, <<"4">>>>)

\* The blocks a one-weapon document is made of: the standard block, the
\* block less each class of element, with each first-shot and increase row,
\* with shorter tables and siblings, and the empty subtree.
Blocks ==
    {Standard, EmptyBlock}
      \cup {Without(Standard, c) : c \in ClassNames}
      \cup {FullBlock(NameA, f, i) : f \in FirstRows, i \in IncRows}
      \cup {With(Standard, "spreadIncDecTable", <<Table(<<<<<<"h">>>>>>)>>),
            With(Standard, "spreadTable",
                 <<Table(SubSeq(SpreadRows, 1, 3))>>),
            With(Standard, "spreadTable",
                 <<Table([r \in 1..7 |-> <<Cell(r - 1, 0)>>])>>),
            With(Standard, "recoilHorValue", <<Leaf(<<"x">>)>>),
            With(Standard, "recoilFirstShot", <<Leaf(<<"x">>)>>),
            With(Standard, "chartMinMaxLabel", <<Leaf(<<"m", "i", "n">>)>>)}

\* The blocks a document of several weapons is made of.  Two carry the same
\* name with different contents, one has no name element.
CoreBlocks ==
    {Standard,
     Without(Without(With(FullBlock(NameA, <<<<"f">>, <<"5">>, <<"6">>>>,
                                    <<<<"i">>, <<"2">>, <<"0">>>>),
                          "lblMag", <<Leaf(<<"7">>)>>),
                     "lblRPMValue"), "spreadTable"),
     FullBlock(NameB, <<<<"f">>, <<"4">>>>, <<<<"i">>, <<"0">>, <<"2">>>>),
     Without(Without(Standard, "lblWeaponNameValue"), "recoilDec")}

\* The flat sequence of blocks cut into weapon classes after the positions
\* of cuts.
RECURSIVE SplitClasses(_, _)
SplitClasses(blocks, cuts) ==
    IF blocks = <<>> THEN <<>>
    ELSE LET here == IF cuts = {} THEN Len(blocks)
                     ELSE CHOOSE c \in cuts : \A d \in cuts : c <= d
         IN  <<SubSeq(blocks, 1, here)>>
               \o SplitClasses(SubSeq(blocks, here + 1, Len(blocks)),
                               {c - here : c \in cuts \ {here}})

\* The documents of n weapons of CoreBlocks.
DocsOf(n) ==
    {SplitClasses(w, cuts) :
        w \in [1..n -> CoreBlocks], cuts \in SUBSET (1..(n - 1))}

\* The documents: no weapon class, one empty class, one weapon of any
\* block, and up to MaxWeapons weapons grouped into classes in every way.
Docs ==
    {<<>>, <<<<>>>>, <<<<>>, <<Standard>>, <<>>>>}
      \cup {<<<<b>>>> : b \in Blocks}
      \cup UNION {DocsOf(n) : n \in 1..MaxWeapons}

-----------------------------------------------------------------------------
(* The program, part_000 *)

COMPACT == "./sym-data.json"

PRETTY == "./sym-data-pretty.json"

Files == {COMPACT, PRETTY}

\* The weapon block weapons[weaponIndex] of the class in progress.
CurrentWeapon == doc[classIndex + 1][weaponIndex + 1]

\* part_000:83-86
NameOpts == [keepSpaces |-> TRUE, asNumber |-> FALSE]

Init ==
    /\ pc = "read"
    /\ doc = <<>>
    /\ classIndex = 0
    /\ weaponIndex = 0
    /\ ruleIndex = 0
    /\ weaponName = Undefined
    /\ weaponData = <<>>
    /\ symData = <<>>
    /\ col = <<>>
    /\ writes = [f \in Files |-> [state |-> "idle", content |-> <<>>]]
    /\ log = <<>>
    /\ pruneArgs = [string |-> Undefined, opts |-> DefaultOpts]
    /\ pruneRet = Undefined

\* ReadFail without the return: the error is logged and the callback goes
\* on with no data, which parses to a document without weapon classes.
ReadFailNoReturn ==
    /\ pc = "read"
    /\ log' = Append(log, [error |-> "./Sym.html"])
    /\ doc' = <<>>
    /\ classIndex' = 0
    /\ pc' = "classes"
    /\ UNCHANGED <<weaponIndex, ruleIndex, weaponName, weaponData, symData,
                   col, writes, pruneArgs, pruneRet>>

\* part_000:10-14: the callback of fs.readFile is called with an error.
ReadFail ==
    /\ pc = "read"
    /\ log' = Append(log, [error |-> "./Sym.html"])
    /\ pc' = "returned"
    /\ UNCHANGED <<doc, classIndex, weaponIndex, ruleIndex, weaponName,
                   weaponData, symData, col, writes, pruneArgs, pruneRet>>

\* part_000:10-21: the callback is called with the data; the document is
\* parsed and the loop over the weapon classes starts.
ReadOk ==
    /\ pc = "read"
    /\ \E d \in Docs : doc' = d
    /\ classIndex' = 0
    /\ pc' = "classes"
    /\ UNCHANGED <<weaponIndex, ruleIndex, weaponName, weaponData, symData,
                   col, writes, log, pruneArgs, pruneRet>>

\* part_000:21-24: the test of the outer loop succeeds.
EnterClass ==
    /\ pc = "classes"
    /\ classIndex < Len(doc)
    /\ weaponIndex' = 0
    /\ pc' = "weapons"
    /\ UNCHANGED <<doc, classIndex, ruleIndex, weaponName, weaponData,
                   symData, col, writes, log, pruneArgs, pruneRet>>

\* StartWeapon with the record of the name reused when symData has one:
\* const weaponData = symData[weaponName] ?? {}.
StartWeaponReusing ==
    /\ pc = "weapons"
    /\ weaponIndex < Len(doc[classIndex + 1])
    /\ LET name == getValue(CurrentWeapon, "lblWeaponNameValue", NameOpts)
           old  == Get(symData, ToPropertyKey(name))
           data == IF old = Undefined THEN <<>> ELSE old
       IN  /\ weaponName' = name
           /\ weaponData' = data
           /\ symData' = Put(symData, ToPropertyKey(name), data)
    /\ col' = NewClosures
    /\ ruleIndex' = 0
    /\ pc' = "rules"
    /\ UNCHANGED <<doc, classIndex, weaponIndex, writes, log, pruneArgs,
                   pruneRet>>

\* part_000:24-199: the test of the inner loop succeeds; the record is
\* made and assigned to symData under the weapon's name, and the closures
\* of the rule list are made.
StartWeapon ==
    /\ pc = "weapons"
    /\ weaponIndex < Len(doc[classIndex + 1])
    /\ LET name == getValue(CurrentWeapon, "lblWeaponNameValue", NameOpts)
       IN  /\ weaponName' = name
           /\ weaponData' = <<>>
           /\ symData' = Put(symData, ToPropertyKey(name), <<>>)
    /\ col' = NewClosures
    /\ ruleIndex' = 0
    /\ pc' = "rules"
    /\ UNCHANGED <<doc, classIndex, weaponIndex, writes, log, pruneArgs,
                   pruneRet>>

\* ApplyRule over a rule list that names the two derivation rules before
\* the two rules of the increases they divide by.
ApplyRuleDerivedFirst ==
    /\ pc = "rules"
    /\ ruleIndex < NumRules
    /\ LET i == ruleIndex + 1
           j == CASE Rules[i].property = "adsStandSpreadInc" -> i + 2
                  [] Rules[i].property = "hipStandSpreadInc" -> i + 2
                  [] Rules[i].property = "adsStandFirstSpreadMul" -> i - 2
                  [] Rules[i].property = "hipStandFirstSpreadMul" -> i - 2
                  [] OTHER -> i
           r == ApplyRuleTo(weaponData, CurrentWeapon, Rules[j], col[j])
       IN  /\ weaponData' = r.data
           /\ symData' = Put(symData, ToPropertyKey(weaponName), r.data)
           /\ col' = [col EXCEPT ![j] = r.col]
           /\ ruleIndex' = i
           /\ IF i = NumRules
              THEN pc' = "weapons" /\ weaponIndex' = weaponIndex + 1
              ELSE UNCHANGED <<pc, weaponIndex>>
    /\ UNCHANGED <<doc, classIndex, weaponName, writes, log, pruneArgs,
                   pruneRet>>

\* part_000:200-213: one iteration of the forEach.  symData holds the
\* record that weaponData names, so it changes with it.  After the last
\* rule the inner loop goes to the next weapon.
ApplyRule ==
    /\ pc = "rules"
    /\ ruleIndex < NumRules
    /\ LET i == ruleIndex + 1
           r == ApplyRuleTo(weaponData, CurrentWeapon, Rules[i], col[i])
       IN  /\ weaponData' = r.data
           /\ symData' = Put(symData, ToPropertyKey(weaponName), r.data)
           /\ col' = [col EXCEPT ![i] = r.col]
           /\ ruleIndex' = i
           /\ IF i = NumRules
              THEN pc' = "weapons" /\ weaponIndex' = weaponIndex + 1
              ELSE UNCHANGED <<pc, weaponIndex>>
    /\ UNCHANGED <<doc, classIndex, weaponName, writes, log, pruneArgs,
                   pruneRet>>

\* part_000:21-24: the test of the inner loop fails.
LeaveClass ==
    /\ pc = "weapons"
    /\ weaponIndex >= Len(doc[classIndex + 1])
    /\ classIndex' = classIndex + 1
    /\ pc' = "classes"
    /\ UNCHANGED <<doc, weaponIndex, ruleIndex, weaponName, weaponData,
                   symData, col, writes, log, pruneArgs, pruneRet>>

\* part_000:217-218: the test of the outer loop fails; both writes are
\* started and the callback returns.
WriteOutputs ==
    /\ pc = "classes"
    /\ classIndex >= Len(doc)
    /\ writes' = [f \in Files |->
                    [state |-> "pending",
                     content |-> IF f = COMPACT THEN JsonStringify(symData)
                                 ELSE prettifySymData(symData)]]
    /\ pc' = "returned"
    /\ UNCHANGED <<doc, classIndex, weaponIndex, ruleIndex, weaponName,
                   weaponData, symData, col, log, pruneArgs, pruneRet>>

\* utils.js:179-184: fs.writeFile calls back without an error; the promise
\* resolves and write logs the file.
WriteDone(f) ==
    /\ pc = "returned"
    /\ writes[f].state = "pending"
    /\ writes' = [writes EXCEPT ![f].state = "written"]
    /\ log' = Append(log, [created |-> f])
    /\ UNCHANGED <<pc, doc, classIndex, weaponIndex, ruleIndex, weaponName,
                   weaponData, symData, col, pruneArgs, pruneRet>>

\* part_000:217-218: neither call of write awaits or catches the promise it
\* returns, so a rejection is left to the runtime.  What the runtime does
\* depends on its version and flags: it throws the rejection as an uncaught
\* exception, which reports it and ends the process; it reports a warning and
\* carries on; or it stays silent and carries on.
UnhandledRejections == {"throw", "warn", "none"}

\* utils.js:149-155, 179-184: fs.writeFile calls back with an error; the
\* promise is rejected and the rest of write does not run, so write itself
\* logs nothing.  The rejection reaches the runtime in the same turn of the
\* event loop; when the process ends there, a write still pending is never
\* completed.
WriteError(f) ==
    /\ pc = "returned"
    /\ writes[f].state = "pending"
    /\ writes' = [writes EXCEPT ![f].state = "rejected"]
    /\ \E mode \in UnhandledRejections :
          /\ log' = IF mode = "none" THEN log
                    ELSE Append(log, [unhandled |-> f])
          /\ pc' = IF mode = "throw" THEN "exited" ELSE pc
    /\ UNCHANGED <<doc, classIndex, weaponIndex, ruleIndex, weaponName,
                   weaponData, symData, col, pruneArgs, pruneRet>>

Next ==
    \/ ReadFail
    \/ ReadOk
    \/ EnterClass
    \/ StartWeapon
    \/ ApplyRule
    \/ LeaveClass
    \/ WriteOutputs
    \/ \E f \in Files : WriteDone(f)
    \/ \E f \in Files : WriteError(f)

Spec == Init /\ [][Next]_vars

-----------------------------------------------------------------------------
(* prune as a pure function: every string up to MaxLen over Alphabet,      *)
(* and no string at all, under every option.                                *)

MaxLen == 5

Alphabet == {SPACE, DEGREE, "1", "x"}

Strings == UNION {[1..n -> Alphabet] : n \in 0..MaxLen}

PruneInputs ==
    [string : {Str(s) : s \in Strings} \cup {Undefined},
     opts : [keepSpaces : BOOLEAN, asNumber : BOOLEAN]]

InitPrune ==
    /\ pc = "prune"
    /\ pruneArgs \in PruneInputs
    /\ pruneRet = Undefined
    /\ doc = <<>>
    /\ classIndex = 0
    /\ weaponIndex = 0
    /\ ruleIndex = 0
    /\ weaponName = Undefined
    /\ weaponData = <<>>
    /\ symData = <<>>
    /\ col = <<>>
    /\ writes = [f \in Files |-> [state |-> "idle", content |-> <<>>]]
    /\ log = <<>>

\* utils.js:14-32: a call of prune returns.
PruneCall ==
    /\ pc = "prune"
    /\ pruneRet' = prune(pruneArgs.string, pruneArgs.opts)
    /\ pc' = "pruned"
    /\ UNCHANGED <<pruneArgs, doc, classIndex, weaponIndex, ruleIndex,
                   weaponName, weaponData, symData, col, writes, log>>

NextPrune == PruneCall

SpecPrune == InitPrune /\ [][NextPrune]_vars

-----------------------------------------------------------------------------
(* Properties *)

\* The rule list has just been applied to a weapon block: weaponData is
\* the record of ProcessedWeapon.
JustProcessed == pc = "weapons" /\ weaponIndex > 0

ProcessedWeapon == doc[classIndex + 1][weaponIndex]

\* The column a table rule is to read: its own, less one for a flagged rule
\* on a row that is not the first of three.
TargetColumn(rule) ==
    IF rule.dynamicCol /\ rule.row % 3 # 1 THEN rule.col - 1 ELSE rule.col

\* The element, table row or table cell the rule targets is absent from
\* the weapon block.
TargetAbsent(weapon, rule) ==
    LET elements == weapon[rule.className]
    IN  CASE rule.kind = "simple" -> elements = <<>>
          [] rule.kind = "pellets" ->
               \A i \in 1..Len(elements) :
                   ~Includes(elements[i].textContent, PELLETS)
          [] rule.kind = "recoilLeft" -> elements = <<>>
          [] rule.kind = "recoilRight" ->
               elements = <<>> \/ elements[1].nextSibling = Undefined
          [] rule.kind = "recoilFirstShot" ->
               elements = <<>> \/ Len(elements[1].children) < 2
          [] IsTableRule(rule) ->
               \/ elements = <<>>
               \/ Len(elements[1].tr) < rule.row + 1
               \/ Len(elements[1].tr[rule.row + 1]) < TargetColumn(rule) + 1

\* C1 (as claimed): once the rule list has been applied to a weapon block,
\* the record has no key for any rule whose targeted element, row or cell
\* is absent from the block; only a first-spread-multiplier rule may store
\* its fallback of zero instead.
C1_AbsentTargetOmitted ==
    JustProcessed =>
        \A i \in 1..NumRules :
            TargetAbsent(ProcessedWeapon, Rules[i]) =>
                \/ ~Has(weaponData, Rules[i].property)
                \/ /\ Rules[i].kind = "getFssm"
                   /\ Get(weaponData, Rules[i].property) = Num(0)

\* The number in the cell of the first shots at a column of the weapon's
\* increase/decrease table.
FirstShots(weapon, column) ==
    ToNumber(prune(CellText(getFirst(weapon, "spreadIncDecTable"), 1, column),
                   DefaultOpts))

\* The derived field is the first shots of its column divided by the stored
\* increase, rounded, when both are numbers and the increase is not zero.
QuotientOf(mul, inc, column) ==
    LET divisor == Get(weaponData, inc)
        first   == FirstShots(ProcessedWeapon, column)
    IN  (IsNum(divisor) /\ divisor.n # 0 /\ IsNum(first)) =>
            Get(weaponData, mul) = Num(ToFixed0(first.n, divisor.n))

\* C2 (as claimed): each derived field is divided by its own dependency:
\* adsStandFirstSpreadMul by adsStandSpreadInc and hipStandFirstSpreadMul by
\* hipStandSpreadInc; with hipStandSpreadInc zero and adsStandSpreadInc not,
\* hipStandFirstSpreadMul is zero.
C2_OwnDivisor ==
    JustProcessed =>
        /\ QuotientOf("adsStandFirstSpreadMul", "adsStandSpreadInc", 1)
        /\ QuotientOf("hipStandFirstSpreadMul", "hipStandSpreadInc", 2)
        /\ (/\ Get(weaponData, "hipStandSpreadInc") = Num(0)
            /\ IsNum(Get(weaponData, "adsStandSpreadInc"))
            /\ Get(weaponData, "adsStandSpreadInc") # Num(0))
             => Get(weaponData, "hipStandFirstSpreadMul") = Num(0)

\* The index in the rule list of the rule of a property.
RuleOf(property) == CHOOSE i \in 1..NumRules : Rules[i].property = property

\* The rule of the property has run on the i-th record of symData: the
\* record of the weapon in progress has seen the rules up to ruleIndex, any
\* other record all of them.
HasRun(i, property) ==
    (pc = "rules" /\ symData[i].k = ToPropertyKey(weaponName))
        => ruleIndex >= RuleOf(property)

\* C3: in every record whose adsStandSpreadInc is the number 0, the derived
\* adsStandFirstSpreadMul is the number 0, whatever the cell of the first
\* shots holds.
C3_ZeroIncreaseZeroMultiplier ==
    \A i \in 1..Len(symData) :
        (/\ HasRun(i, "adsStandFirstSpreadMul")
         /\ Get(symData[i].v, "adsStandSpreadInc") = Num(0))
          => Get(symData[i].v, "adsStandFirstSpreadMul") = Num(0)

\* C3 witness: a processed weapon whose increase is 0 and whose cell of the
\* first shots is missing or not a number.
C3_Witness ==
    /\ JustProcessed
    /\ Get(weaponData, "adsStandSpreadInc") = Num(0)
    /\ ~IsNum(FirstShots(ProcessedWeapon, 1))
    /\ Get(weaponData, "adsStandFirstSpreadMul") = Num(0)

\* The column the claim gives a rule: a spread-table rule reads its column
\* on rows 1 and 4 and the column before on rows 2, 3, 5 and 6; the other
\* table rules read their column.
ClaimedColumn(rule) ==
    IF rule.className = "spreadTable"
    THEN IF rule.row \in {1, 4} THEN rule.col ELSE rule.col - 1
    ELSE rule.col

\* C4: for every weapon and every table rule that has run on it, the cell
\* index read is the rule's column when its flag is off or its row is 1
\* modulo 3, and one less otherwise; a getSpread rule stores the text of
\* that cell.
C4_EffectiveColumn ==
    (pc = "rules" \/ JustProcessed) =>
        \A i \in 1..ruleIndex :
            IsTableRule(Rules[i]) =>
                /\ col[i] = TargetColumn(Rules[i])
                /\ col[i] = ClaimedColumn(Rules[i])
                /\ Rules[i].kind = "getSpread" =>
                     Get(weaponData, Rules[i].property) =
                         prune(CellText(getFirst(IF pc = "rules"
                                                 THEN CurrentWeapon
                                                 ELSE ProcessedWeapon,
                                                 Rules[i].className),
                                        Rules[i].row, ClaimedColumn(Rules[i])),
                               DefaultOpts)

\* C4 witness: the second weapon of a document, in a later class, has been
\* processed; row 1, column 2 read index 2 and row 2, column 2 read index 1.
C4_Witness ==
    /\ JustProcessed
    /\ classIndex = 1
    /\ Len(symData) = 2
    /\ col[RuleOf("adsStandBaseMax")] = 2
    /\ col[RuleOf("adsCrouchBaseMax")] = 1
    /\ Get(weaponData, "adsCrouchBaseMax") = Num(21)

-----------------------------------------------------------------------------
(* Properties of prune, under SpecPrune *)

\* A call of prune on a string has returned.
Pruned == pc = "pruned" /\ pruneArgs.string.t = "string"

HasGlyph(s) == \E i \in 1..Len(s) : s[i] = DEGREE

\* C5: when the input string holds the degree sign, the value returned, as
\* text, holds none, under every combination of the options.
C5_NoGlyphInOutput ==
    (Pruned /\ HasGlyph(pruneArgs.string.s)) => ~HasGlyph(ValueChars(pruneRet))

\* C5 witness: a string with two degree signs in the text that is kept has
\* been pruned to a string that is not empty.
C5_Witness ==
    /\ Pruned
    /\ pruneArgs.opts = [keepSpaces |-> TRUE, asNumber |-> FALSE]
    /\ Cardinality({i \in 1..Len(pruneArgs.string.s) :
                       pruneArgs.string.s[i] = DEGREE}) >= 2
    /\ pruneRet.t = "string"
    /\ pruneRet.s # <<>>

\* The string has a character that is not a space, so one of the pieces
\* between its spaces is not empty.
HasToken(s) == \E i \in 1..Len(s) : s[i] # SPACE

\* The first piece that is not empty: from the first character that is not
\* a space up to the space after it.
FirstToken(s) ==
    LET from == CHOOSE i \in 1..Len(s) :
                    s[i] # SPACE /\ \A j \in 1..(i - 1) : s[j] = SPACE
        to   == CHOOSE k \in from..Len(s) :
                    /\ \A j \in from..k : s[j] # SPACE
                    /\ k = Len(s) \/ s[k + 1] = SPACE
    IN  SubSeq(s, from, to)

WithoutGlyph(s) == SelectSeq(s, LAMBDA c : c # DEGREE)

\* C6: with keepSpaces false and a nonempty token in the input, the output
\* is the first such token less its degree signs: that string when asNumber
\* is false, its numeric coercion otherwise.
C6_FirstToken ==
    (Pruned /\ ~pruneArgs.opts.keepSpaces /\ HasToken(pruneArgs.string.s)) =>
        LET token == WithoutGlyph(FirstToken(pruneArgs.string.s))
        IN  pruneRet = IF pruneArgs.opts.asNumber = FALSE THEN Str(token)
                       ELSE StringToNumber(token)

\* C6 witness: leading space, a token with a degree sign, a later token.
C6_Witness ==
    /\ Pruned
    /\ pruneArgs.string.s = <<SPACE, "1", DEGREE, SPACE, "x">>
    /\ pruneArgs.opts = DefaultOpts
    /\ pruneRet = Num(1)

AllSpaces(s) == s # <<>> /\ \A i \in 1..Len(s) : s[i] = SPACE

\* C7 (as claimed): for an input of spaces only and keepSpaces false, the
\* output is the input string unchanged.
C7_AllSpacesUnchanged ==
    (Pruned /\ ~pruneArgs.opts.keepSpaces /\ AllSpaces(pruneArgs.string.s)) =>
        pruneRet = pruneArgs.string

\* C7 (amended): for an input of spaces only and keepSpaces false, the
\* output is the input string unchanged when asNumber is false, and the
\* number 0, the coercion of that string, otherwise.
C7_AllSpacesFallback ==
    (Pruned /\ ~pruneArgs.opts.keepSpaces /\ AllSpaces(pruneArgs.string.s)) =>
        pruneRet = IF pruneArgs.opts.asNumber = FALSE THEN pruneArgs.string
                   ELSE Num(0)

\* C7 witness: a string of several spaces came back unchanged.
C7_Witness ==
    /\ Pruned
    /\ pruneArgs.opts = [keepSpaces |-> FALSE, asNumber |-> FALSE]
    /\ AllSpaces(pruneArgs.string.s)
    /\ Len(pruneArgs.string.s) >= 2
    /\ pruneRet = pruneArgs.string

-----------------------------------------------------------------------------
(* Properties of the whole run, under Spec *)

\* The weapon blocks of the document in document order.
RECURSIVE Flatten(_)
Flatten(classes) ==
    IF classes = <<>> THEN <<>> ELSE Head(classes) \o Flatten(Tail(classes))

\* The key a weapon block is stored under.
NameKey(weapon) ==
    ToPropertyKey(getValue(weapon, "lblWeaponNameValue", NameOpts))

\* The record the rule list yields on a weapon block, from a record and the
\* i-th rule on.  A rule removes no key; testing it evaluates each record
\* before the next rule is applied to it.
RECURSIVE RunRules(_, _, _)
RunRules(data, weapon, i) ==
    IF i > NumRules THEN data
    ELSE LET next == ApplyRuleTo(data, weapon, Rules[i], NewClosures[i]).data
         IN  IF Len(next) >= Len(data) THEN RunRules(next, weapon, i + 1)
             ELSE next

\* The loops have ended: the writes have been started.
ExtractionDone == \A f \in Files : writes[f].state # "idle"

\* C8: after the iterator has processed the document, symData has one
\* entry for each distinct weapon name, and its record is the one extracted
\* from the last block of that name in document order.
C8_LastBlockWins ==
    ExtractionDone =>
        LET blocks == Flatten(doc)
        IN  /\ \A i, j \in 1..Len(symData) :
                   symData[i].k = symData[j].k => i = j
            /\ {symData[i].k : i \in 1..Len(symData)}
                 = {NameKey(blocks[n]) : n \in 1..Len(blocks)}
            /\ \A i \in 1..Len(symData) :
                   LET last == CHOOSE n \in 1..Len(blocks) :
                                   /\ NameKey(blocks[n]) = symData[i].k
                                   /\ \A m \in (n + 1)..Len(blocks) :
                                          NameKey(blocks[m]) # symData[i].k
                   IN  symData[i].v = RunRules(<<>>, blocks[last], 1)

\* C8 witness: two blocks of one name in two classes; the first has a rate
\* of fire and the second has none, and the stored record has none.
C8_Witness ==
    /\ ExtractionDone
    /\ Len(doc) = 2
    /\ Len(Flatten(doc)) = 2
    /\ Len(symData) = 1
    /\ doc[1][1]["lblRPMValue"] # <<>>
    /\ doc[2][1]["lblRPMValue"] = <<>>
    /\ ~Has(symData[1].v, "rateOfFire")
    /\ Get(symData[1].v, "ammoCapacity") = Num(7)

\* The lines of the pretty text of a record: each attribute in order, a
\* comma after every one but the last.
AttributeLines(stats) ==
    [j \in 1..Len(stats) |->
        <<" ", " ", " ", " ", "\"", stats[j].k, "\"", ":", " ">>
          \o ValueChars(stats[j].v)
          \o (IF j = Len(stats) THEN <<>> ELSE <<",">>)]

\* The lines of the pretty text of the weapons from the i-th on: the name,
\* the attributes, and a closing brace with a comma after it for every
\* weapon but the last.
RECURSIVE WeaponLines(_, _)
WeaponLines(data, i) ==
    IF i > Len(data) THEN <<>>
    ELSE <<<<" ", " ", "\"">> \o data[i].k \o <<"\"", ":", " ", "{">>>>
           \o AttributeLines(data[i].v)
           \o <<<<" ", " ", "}">> \o (IF i = Len(data) THEN <<>> ELSE <<",">>)>>
           \o WeaponLines(data, i + 1)

\* C9: for a symData of at least one weapon the pretty text has the weapons
\* in key order and the attributes in insertion order, a comma after every
\* attribute line but the last of each weapon and after every closing brace
\* but the last weapon's.
C9_PrettyCommas ==
    (writes[PRETTY].state # "idle" /\ Len(symData) >= 1) =>
        Split(writes[PRETTY].content, "\n")
            = <<<<"{">>>> \o WeaponLines(symData, 1) \o <<<<"}">>>>

\* C9 witness: the pretty text of two weapons ends with an attribute line
\* without a comma, the closing brace of the last weapon without a comma
\* and the closing brace of the text.
C9_Witness ==
    /\ writes[PRETTY].state # "idle"
    /\ Len(symData) = 2
    /\ LET lines == Split(writes[PRETTY].content, "\n")
           n     == Len(lines)
       IN  /\ lines[n] = <<"}">>
           /\ lines[n - 1] = <<" ", " ", "}">>
           /\ lines[n - 2][Len(lines[n - 2])] # ","
           /\ \E m \in 2..(n - 3) : lines[m] = <<" ", " ", "}", ",">>

\* The read of the source file has failed.
ReadFailed == \E i \in 1..Len(log) : "error" \in DOMAIN log[i]

\* C10: when the read of the source file fails, the error is logged once
\* and the run ends there: no document is parsed, no weapon block is
\* processed, symData stays empty and neither write is started.
C10_ReadFailureAborts ==
    ReadFailed =>
        /\ log = <<[error |-> "./Sym.html"]>>
        /\ pc = "returned"
        /\ doc = <<>>
        /\ ruleIndex = 0
        /\ weaponData = <<>>
        /\ symData = <<>>
        /\ \A f \in Files : writes[f].state = "idle"

\* C10 witness: the read has failed and the callback has returned.
C10_Witness == ReadFailed /\ pc = "returned"

WriteFailed(f) == writes[f].state = "rejected"

FailureLogged(f) ==
    \E i \in 1..Len(log) :
        \/ "error" \in DOMAIN log[i] /\ log[i].error = f
        \/ "unhandled" \in DOMAIN log[i] /\ log[i].unhandled = f

\* The process has ended while the write of f was still pending.
WritePrevented(f) == pc = "exited" /\ writes[f].state = "pending"

Serialised(f) ==
    IF f = COMPACT THEN JsonStringify(symData) ELSE prettifySymData(symData)

\* C11: the two writes are started, together, only after every weapon has
\* been extracted; a write that fails is logged for its file, whatever
\* the other write does; the failure of one write never leaves the other
\* write unable to complete, and a file that was written keeps the content
\* it was given.
C11_IndependentWrites ==
    /\ \A f \in Files :
           writes[f].state # "idle" =>
               /\ ExtractionDone
               /\ classIndex >= Len(doc)
               /\ pc \in {"returned", "exited"}
    /\ \A f \in Files : WriteFailed(f) => FailureLogged(f)
    /\ \A f, g \in Files :
           (f # g /\ WriteFailed(f)) =>
               /\ ~WritePrevented(g)
               /\ writes[g].state = "written" =>
                      writes[g].content = Serialised(g)

\* The record the rules i..n yield, in the order of the list, on a weapon
\* block, from a record.
RECURSIVE RunRulesUpTo(_, _, _, _)
RunRulesUpTo(data, weapon, i, n) ==
    IF i > n THEN data
    ELSE LET next == ApplyRuleTo(data, weapon, Rules[i], NewClosures[i]).data
         IN  IF Len(next) >= Len(data) THEN RunRulesUpTo(next, weapon, i + 1, n)
             ELSE next

\* The derived fields, each with the field it depends on and the column of
\* the increase/decrease table that field is read from.
Derivations ==
    {[derived |-> "adsStandFirstSpreadMul", dependency |-> "adsStandSpreadInc",
      column |-> 1],
     [derived |-> "hipStandFirstSpreadMul", dependency |-> "hipStandSpreadInc",
      column |-> 2]}

\* The value the rule of an increase extracts from a weapon block.
IncreaseOf(weapon, column) ==
    prune(CellText(getFirst(weapon, "spreadIncDecTable"), 2, column),
          DefaultOpts)

\* C12: while the rule list is applied to a weapon, the record in progress
\* is what the first ruleIndex rules, each applied once and in the order of
\* the list, yield on that weapon's block from an empty record, and it is
\* the record symData holds under the weapon's name; from the moment a
\* derivation rule is the next to run, the rule of its dependency has run
\* and the record holds the dependency as extracted from this weapon's
\* block, not from a weapon processed before.
C12_DependencyBeforeDerivation ==
    pc = "rules" =>
        /\ weaponData = RunRulesUpTo(<<>>, CurrentWeapon, 1, ruleIndex)
        /\ Get(symData, ToPropertyKey(weaponName)) = weaponData
        /\ \A d \in Derivations :
               /\ RuleOf(d.dependency) < RuleOf(d.derived)
               /\ ruleIndex >= RuleOf(d.derived) - 1 =>
                      /\ Has(weaponData, d.dependency)
                      /\ Get(weaponData, d.dependency)
                           = IncreaseOf(CurrentWeapon, d.column)

\* C12 witness: the second of two blocks of one name, whose hip increase
\* differs from the first block's, right after hipStandFirstSpreadMul was
\* derived; the record holds the second block's increase.
C12_Witness ==
    /\ pc = "rules"
    /\ ruleIndex = RuleOf("hipStandFirstSpreadMul")
    /\ Has(weaponData, "hipStandFirstSpreadMul")
    /\ Len(Flatten(doc)) = 2
    /\ Flatten(doc)[1] = Standard
    /\ CurrentWeapon # Standard
    /\ NameKey(CurrentWeapon) = NameKey(Standard)
    /\ IncreaseOf(Standard, 2) = Num(4)
    /\ Get(weaponData, "hipStandSpreadInc") = Num(0)

=============================================================================
